---------------------------- MODULE Spec2Model ----------------------------
(***************************************************************************)
(* Map Studio (src/app.py): a Streamlit script that is re-executed from    *)
(* top to bottom on every user interaction.  The model keeps the session   *)
(* state (data_df, generated_map_path), the widget state that survives     *)
(* between script runs, the clock and the working directory, and has one   *)
(* action per user interaction, each of which is one complete script run.  *)
(*                                                                         *)
(* Text is a sequence of symbols.  A symbol is one character position; the *)
(* letter symbols ("state", "VALUE") each stand for a run of letters.      *)
(***************************************************************************)
EXTENDS Integers, Sequences, FiniteSets, TLC

\* ------------------------------------------------------------------ bounds
MaxLen == 5        \* longest pasted text explored by SpecNormalize
MaxHdrLen == 3     \* longest header string explored by SpecHeader
MaxTick == 4       \* the clock stops advancing here
MaxGens == 2       \* generations recorded per session
TicksPerSec == 2   \* clock ticks per second of time.time()

\* ----------------------------------------------------------------- symbols
SP == " "
TAB == "\t"
NL == "\n"
NBSP == "nbsp"
COMMA == ","
QUOTE == "\""

Letters == {"state", "VALUE"}
Sym == Letters \cup {COMMA, TAB, SP, NL, QUOTE, NBSP}

NoneVal == [none |-> TRUE]

\* Python's str.isspace(): U+00A0 is whitespace for str.strip().
PyWhitespace == {SP, TAB, NL, NBSP}

\* ------------------------------------------------------- string operations
RECURSIVE LStrip(_, _)
LStrip(s, ws) ==
    IF s # <<>> /\ Head(s) \in ws THEN LStrip(Tail(s), ws) ELSE s

RECURSIVE RStrip(_, _)
RStrip(s, ws) ==
    IF s # <<>> /\ s[Len(s)] \in ws THEN RStrip(SubSeq(s, 1, Len(s) - 1), ws) ELSE s

StripChars(s, ws) == RStrip(LStrip(s, ws), ws)

\* Mutant: only ASCII whitespace is stripped.
StripAscii(s) == StripChars(s, {SP, TAB, NL})

\* str.strip() with no argument.
Strip(s) == StripChars(s, PyWhitespace)

LowerSym(c) ==
    CASE c = "VALUE" -> "value"
      [] c = "Unnamed" -> "unnamed"
      [] OTHER -> c

\* str.lower()
Lower(s) == [i \in 1..Len(s) |-> LowerSym(s[i])]

\* str.replace(old, "", regex=False) for a one-character old
Remove(s, old) == SelectSeq(s, LAMBDA c : c # old)

\* Mutant: only the empty text counts as blank.
IsBlankEmptyOnly(text) == text = <<>>

\* csv_text.strip() is falsy
IsBlank(text) == Strip(text) = <<>>

RECURSIVE SplitOn(_, _)
SplitOn(s, d) ==
    IF \A i \in 1..Len(s) : s[i] # d
    THEN <<s>>
    ELSE LET i == CHOOSE k \in 1..Len(s) : s[k] = d /\ \A j \in 1..(k - 1) : s[j] # d
         IN  <<SubSeq(s, 1, i - 1)>> \o SplitOn(SubSeq(s, i + 1, Len(s)), d)

Max(S) == CHOOSE x \in S : \A y \in S : y <= x

\* ------------------------------------------------------------------ tables
\* A DataFrame: its column labels and its rows of cells (the row index is
\* not kept: to_csv(index=False) never writes it).
Table(cols, rows) == [columns |-> cols, rows |-> rows]

Ok(df) == [ok |-> TRUE, df |-> df]
Raised == [ok |-> FALSE, df |-> NoneVal]

\* pandas names an empty header field "Unnamed: <position>" (0-based)
UnnamedCol(i) == <<"Unnamed", ":", SP, ToString(i - 1)>>

\* pandas renames the k-th repeat of a label to "<label>.<k>"
DedupCols(names) ==
    [i \in 1..Len(names) |->
        LET k == Cardinality({j \in 1..(i - 1) : names[j] = names[i]})
        IN  IF k = 0 THEN names[i] ELSE names[i] \o <<".", ToString(k)>>]

HeaderCols(fields) ==
    DedupCols([i \in 1..Len(fields) |->
                  IF fields[i] = <<>> THEN UnnamedCol(i) ELSE fields[i]])

\* A data line fitted to the header: missing cells are empty (NaN), the
\* leading cells beyond the header's width are the implicit index.
FitRow(line, width, ncols) ==
    LET padded == line \o [i \in 1..(width - Len(line)) |-> <<>>]
    IN  SubSeq(padded, width - ncols + 1, width)

\* ------------------------------------------------- pd.read_csv(text, sep)
\* The tokenizer: fields split on sep, lines on the newline, a field that
\* opens with a quote runs to its closing quote ("" is a literal quote).
TokInit == [rows |-> <<>>, line |-> <<>>, field |-> <<>>, mode |-> "start",
            quoted |-> FALSE]

EndField(st) == [st EXCEPT !.line = Append(@, st.field), !.field = <<>>,
                           !.mode = "start"]

\* skip_blank_lines: an empty line, or one of whitespace that is not the
\* delimiter, is no record.
SkipLine(line, quoted, sep) ==
    /\ ~quoted
    /\ Len(line) = 1
    /\ \A i \in 1..Len(line[1]) : line[1][i] \in ({SP, TAB} \ {sep})

EndLine(st, sep) ==
    LET s == EndField(st)
    IN  [s EXCEPT !.rows = IF SkipLine(s.line, s.quoted, sep) THEN @
                           ELSE Append(@, s.line),
                  !.line = <<>>, !.quoted = FALSE]

TokStep(st, c, sep) ==
    CASE st.mode = "quoted" ->
            IF c = QUOTE THEN [st EXCEPT !.mode = "qq"]
            ELSE [st EXCEPT !.field = Append(@, c)]
      [] st.mode = "qq" /\ c = QUOTE ->
            [st EXCEPT !.field = Append(@, c), !.mode = "quoted"]
      [] st.mode = "start" /\ c = QUOTE ->
            [st EXCEPT !.mode = "quoted", !.quoted = TRUE]
      [] st.mode # "quoted" /\ c = sep -> EndField(st)
      [] st.mode # "quoted" /\ c = NL -> EndLine(st, sep)
      [] OTHER -> [st EXCEPT !.field = Append(@, c), !.mode = "field"]

RECURSIVE Tokenize(_, _, _)
Tokenize(text, sep, st) ==
    IF text = <<>>
    THEN IF st.line = <<>> /\ st.field = <<>> /\ st.mode = "start"
         THEN st ELSE IF st.mode = "quoted" THEN st ELSE EndLine(st, sep)
    ELSE Tokenize(Tail(text), sep, TokStep(st, Head(text), sep))

\* The width of the parsed block: the header's, or the first data
\* record's when that one is wider (its leading cells are then the index).
CsvWidth(recs) ==
    IF Len(recs) >= 2 /\ Len(recs[2]) > Len(recs[1]) THEN Len(recs[2]) ELSE Len(recs[1])

CsvTable(recs, width) ==
    IF \E k \in 3..Len(recs) : Len(recs[k]) > width THEN Raised
    ELSE Ok(Table(HeaderCols(recs[1]),
                  [k \in 1..(Len(recs) - 1) |-> FitRow(recs[k + 1], width, Len(recs[1]))]))

CsvResult(st) ==
    IF st.mode = "quoted" \/ st.rows = <<>> THEN Raised
    ELSE CsvTable(st.rows, CsvWidth(st.rows))

\* read_csv: the first record is the header.  It raises on an unterminated
\* quote ("EOF inside string"), on no record at all ("No columns to parse")
\* and on a record after the first data record that is wider than the
\* records before it ("Expected n fields, saw m").
ReadCsv(text, sep) == CsvResult(Tokenize(text, sep, TokInit))

\* ------------------------------------------------------ pd.read_fwf(text)
FwfDelim == {SP, TAB, NL}

\* colspecs="infer": a column is a maximal run of positions at which some
\* line holds a character that is not a delimiter.
FwfMask(lines) ==
    {p \in 1..Max({Len(lines[i]) : i \in 1..Len(lines)} \cup {0}) :
        \E i \in 1..Len(lines) : p <= Len(lines[i]) /\ lines[i][p] \notin FwfDelim}

FwfEnd(mask, p) ==
    CHOOSE q \in mask : q >= p /\ (q + 1) \notin mask /\ \A r \in p..q : r \in mask

RECURSIVE FwfOrder(_, _)
FwfOrder(mask, starts) ==
    IF starts = {} THEN <<>>
    ELSE <<[from |-> Max({p \in starts : \A y \in starts : p <= y}),
            to |-> FwfEnd(mask, Max({p \in starts : \A y \in starts : p <= y}))]>>
         \o FwfOrder(mask, {p \in starts : \E y \in starts : y < p})

FwfColspecs(mask) == FwfOrder(mask, {p \in mask : (p - 1) \notin mask})

FwfField(line, from, to) ==
    StripChars(SubSeq(line, from, IF to <= Len(line) THEN to ELSE Len(line)), FwfDelim)

FwfFields(line, colspecs) ==
    [k \in 1..Len(colspecs) |-> FwfField(line, colspecs[k].from, colspecs[k].to)]

FwfNotEmpty(r) == \E k \in 1..Len(r) : Strip(r[k]) # <<>>

FwfTable(recs) ==
    IF recs = <<>> THEN Raised
    ELSE Ok(Table(HeaderCols(recs[1]), [k \in 1..(Len(recs) - 1) |-> recs[k + 1]]))

FwfCut(lines, colspecs) ==
    IF colspecs = <<>> THEN Raised
    ELSE FwfTable(SelectSeq([i \in 1..Len(lines) |-> FwfFields(lines[i], colspecs)],
                            FwfNotEmpty))

FwfLines(lines) == FwfCut(lines, FwfColspecs(FwfMask(lines)))

\* read_fwf: lines cut at the inferred columns; a line whose fields are all
\* empty after str.strip() is dropped; the first line left is the header.
ReadFwf(text) == FwfLines(SplitOn(text, NL))

\* -------------------------------------------------- column normalization
\* Mutant: the upload path forgets to lowercase.
UploadNameNoLower(h) == Strip(h)

\* Upload: df.columns.str.strip().str.lower()
UploadName(h) == Lower(Strip(h))

\* Paste: .astype(str).str.strip().str.lower().str.replace(" ", "")
\* (read_csv and read_fwf labels are strings already: astype(str) keeps them)
PasteName(h) == Remove(Lower(Strip(h)), NBSP)

UploadColumns(df) == Table([i \in 1..Len(df.columns) |-> UploadName(df.columns[i])], df.rows)

PasteColumns(df) == Table([i \in 1..Len(df.columns) |-> PasteName(df.columns[i])], df.rows)

\* --------------------------------------------------------------- loaders
\* df.shape[1] == 1 raises ValueError inside the try
Rejected(r) == ~r.ok \/ Len(r.df.columns) = 1

\* Mutant: the fixed-width result is rejected like the others.
ChainPickRejectFwf(c, t, f) ==
    IF ~Rejected(c) THEN c
    ELSE IF ~Rejected(t) THEN t
    ELSE IF Rejected(f) THEN Raised
    ELSE f

\* The try / except chain of the paste branch: comma, then tab, then
\* fixed width, whose result is taken as it is.
ChainPick(c, t, f) ==
    IF ~Rejected(c) THEN c
    ELSE IF ~Rejected(t) THEN t
    ELSE f

\* Mutant: the tab parse is tried before the comma parse.
PasteChainTabFirst(text) ==
    ChainPick(ReadCsv(text, TAB), ReadCsv(text, COMMA), ReadFwf(text))

PasteChain(text) == ChainPick(ReadCsv(text, COMMA), ReadCsv(text, TAB), ReadFwf(text))

PasteResult(r) == IF r.ok THEN Ok(PasteColumns(r.df)) ELSE Raised

NormalizePasted(text) == PasteResult(PasteChain(text))

UploadResult(r) == IF r.ok THEN Ok(UploadColumns(r.df)) ELSE Raised

LoadUpload(file) == UploadResult(ReadCsv(file, COMMA))

Word(w) == <<w>>

SampleTable ==
    Table(<<Word("state"), Word("value")>>,
          << <<Word("Rajasthan"), Word("55")>>,
             <<Word("Kerala"), Word("12")>>,
             <<Word("Maharashtra"), Word("34")>>,
             <<Word("Uttar Pradesh"), Word("67")>>,
             <<Word("Tamil Nadu"), Word("22")>>,
             <<Word("Gujarat"), Word("45")>>,
             <<Word("West Bengal"), Word("30")>> >>)

\* ---------------------------------------------------------- data editor
\* st.data_editor(df, num_rows="dynamic"): the user may change cells, add
\* rows and delete rows; the columns are those of df.
EditOps == {"none", "add_row", "delete_row", "set_cell"}

ApplyEdit(op, df) ==
    CASE op = "add_row" ->
            Table(df.columns, Append(df.rows, [i \in 1..Len(df.columns) |-> <<>>]))
      [] op = "delete_row" /\ df.rows # <<>> ->
            Table(df.columns, SubSeq(df.rows, 1, Len(df.rows) - 1))
      [] op = "set_cell" /\ df.rows # <<>> /\ df.columns # <<>> ->
            Table(df.columns, [df.rows EXCEPT ![1][1] = Word("edited")])
      [] OTHER -> df

required_cols == {Word("state"), Word("value")}

ColumnSet(df) == {df.columns[i] : i \in 1..Len(df.columns)}

\* Mutant: one required column is enough.
ReadyAnyColumn(df, eds) ==
    /\ df # NoneVal
    /\ required_cols \cap ColumnSet(ApplyEdit(eds, df)) # {}

\* ready_to_generate of one script run
ReadyToGenerate(df, eds) ==
    /\ df # NoneVal
    /\ required_cols \subseteq ColumnSet(ApplyEdit(eds, df))

\* ------------------------------------------------------------ generation
temp_csv_path == "output/ui_data.csv"

\* Mutant: the output name carries no timestamp.
OutputPathFixed(t) == [dir |-> "output", stem |-> "india_map_", stamp |-> 0, ext |-> ".png"]

\* output_dir / f"india_map_{int(time.time())}.png"
OutputPath(t) == [dir |-> "output", stem |-> "india_map_", stamp |-> t \div TicksPerSec,
                  ext |-> ".png"]

\* edited_df.to_csv(temp_csv, index=False): the header line, then the rows
ToCsv(df) == [lines |-> <<df.columns>> \o df.rows]

Palettes == {"Blues", "Reds"}

DefaultConfig == [title_text |-> "", source_text |-> "", credits_text |-> "",
                  value_prefix |-> "", value_suffix |-> "", palette |-> "Blues",
                  annotation_text |-> ""]

Configs == {[DefaultConfig EXCEPT !.palette = p] : p \in Palettes}

RenderCall(cfg, out, file) ==
    [data_csv_path |-> temp_csv_path, config |-> cfg, output_path |-> out,
     file |-> file]

\* ------------------------------------------------------------------ state
VARIABLES
    data_df,             \* st.session_state["data_df"]
    generated_map_path,  \* st.session_state["generated_map_path"]
    input_method,        \* the radio
    uploaded_file,       \* the file uploader's file, or NoneVal
    csv_text,            \* the paste text area
    edits,               \* what the user did in the data editor
    config,              \* the sidebar controls
    now,                 \* time.time(), in ticks
    temp_csv,            \* content of output/ui_data.csv, or NoneVal
    gens,                \* every generation so far: tick, output path, outcome
    run,                 \* the last script run: its trigger, error, render calls
    hdr                  \* SpecHeader: one text put through both load paths

vars == <<data_df, generated_map_path, input_method, uploaded_file, csv_text,
          edits, config, now, temp_csv, gens, run, hdr>>

InputMethods == {"Upload CSV", "Paste CSV / Excel", "Use Sample"}

File(content) == [name |-> "data.csv", content |-> content]

\* The texts and files a user supplies in Spec.
PasteInputs ==
    { <<>>,
      <<SP, NBSP>>,
      <<"state", COMMA, "VALUE", NL, "state", COMMA, "VALUE">>,
      <<"state", TAB, "state">>,
      <<"state">> }

UploadInputs ==
    { File(<<"state", COMMA, SP, "VALUE", NL, "VALUE", COMMA, "state">>),
      File(<<QUOTE, "state">>) }

Texts(n) == UNION {[1..k -> Sym] : k \in 0..n}

HdrSym == {"state", "VALUE", SP, NBSP}
Headers == UNION {[1..k -> HdrSym] : k \in 0..MaxHdrLen}

HdrInit == [text |-> <<>>, upload |-> NoneVal, paste |-> NoneVal,
            upload2 |-> NoneVal, paste2 |-> NoneVal]

\* Lines 58-62 and the widgets' defaults.
Init ==
    /\ data_df = NoneVal
    /\ generated_map_path = NoneVal
    /\ input_method = "Upload CSV"
    /\ uploaded_file = NoneVal
    /\ csv_text = <<>>
    /\ edits = "none"
    /\ config = DefaultConfig
    /\ now = 0
    /\ temp_csv = NoneVal
    /\ gens = <<>>
    /\ run = [event |-> "init", error |-> "none", calls |-> <<>>]
    /\ hdr = HdrInit

\* ------------------------------------------------------- one script run
\* The data input branches (lines 129-174): what is loaded, if anything.
InputBranch(method, file, text, sample_click) ==
    CASE method = "Upload CSV" /\ file # NoneVal ->
            [loaded |-> TRUE, res |-> LoadUpload(file.content)]
      [] method = "Paste CSV / Excel" /\ ~IsBlank(text) ->
            [loaded |-> TRUE, res |-> NormalizePasted(text)]
      [] method = "Use Sample" /\ sample_click ->
            [loaded |-> TRUE, res |-> Ok(SampleTable)]
      [] OTHER -> [loaded |-> FALSE, res |-> Ok(NoneVal)]

\* Mutant: the new rows are added to the table already held.
StoreMerged(old, new) ==
    IF old = NoneVal \/ old.columns # new.columns THEN new
    ELSE Table(new.columns,
               old.rows \o SelectSeq(new.rows,
                                     LAMBDA r : \A i \in 1..Len(old.rows) : old.rows[i] # r))

\* st.session_state["data_df"] = df
StoreTable(old, new) == new

\* Mutant: render_map is called before to_csv wrote the file.
FileBeforeWrite(before, written) == before

\* The file the renderer finds at data_csv_path: to_csv has written it.
FileAtRender(before, written) == written

\* render_map is called once, inside the try.
RenderCalls(call, outcome) == <<call>>

\* Mutant: generated_map_path is assigned whatever render_map did.
PathAlways(old, out, outcome) == out

\* generated_map_path is assigned after render_map returned.
PathAfterRender(old, out, outcome) == IF outcome = "ok" THEN out ELSE old

\* The Generate handler (lines 199-226) on the edited table.
GenerateHandler(event, cfg, outcome, edited_df, output_path) ==
    /\ temp_csv' = ToCsv(edited_df)
    /\ generated_map_path' = PathAfterRender(generated_map_path, output_path, outcome)
    /\ gens' = Append(gens, [tick |-> now, path |-> output_path, ok |-> outcome = "ok"])
    /\ run' = [event |-> event,
               error |-> IF outcome = "ok" THEN "none" ELSE "render_error",
               calls |-> RenderCalls(RenderCall(cfg, output_path,
                                                FileAtRender(temp_csv, ToCsv(edited_df))),
                                     outcome)]

\* The editor and the button (lines 177-226) once data_df holds df.
EditorAndButton(event, eds, cfg, gen_click, outcome, df) ==
    /\ data_df' = df
    /\ edits' = eds
    /\ IF gen_click
       THEN GenerateHandler(event, cfg, outcome, ApplyEdit(eds, df), OutputPath(now))
       ELSE /\ UNCHANGED <<generated_map_path, temp_csv, gens>>
            /\ run' = [event |-> event, error |-> "none", calls |-> <<>>]

\* The editor is a new widget, without edits, when its table changes.
AfterStore(event, eds, cfg, gen_click, outcome, df) ==
    EditorAndButton(event, IF df = NoneVal \/ df # data_df THEN "none" ELSE eds,
                    cfg, gen_click, outcome, df)

\* An exception in an input branch ends the run there.
AfterInput(event, eds, cfg, gen_click, outcome, inp) ==
    IF ~inp.res.ok
    THEN /\ UNCHANGED <<data_df, generated_map_path, temp_csv, gens>>
         /\ edits' = "none"
         /\ run' = [event |-> event, error |-> "input_error", calls |-> <<>>]
    ELSE AfterStore(event, eds, cfg, gen_click, outcome,
                    IF inp.loaded THEN StoreTable(data_df, inp.res.df) ELSE data_df)

\* The script, top to bottom, with the widget values of this run.
ScriptRun(event, method, file, text, eds, cfg, sample_click, gen_click, outcome) ==
    /\ input_method' = method
    /\ uploaded_file' = file
    /\ csv_text' = text
    /\ config' = cfg
    /\ UNCHANGED <<now, hdr>>
    /\ AfterInput(event, eds, cfg, gen_click, outcome,
                  InputBranch(method, file, text, sample_click))

\* The script of the current widget values gets past the input branches.
InputOk == InputBranch(input_method, uploaded_file, csv_text, FALSE).res.ok

\* The Generate button was drawn, and drawn enabled.
ButtonEnabled == InputOk /\ ReadyToGenerate(data_df, edits)

\* ---------------------------------------------------------------- actions
\* A widget that is not drawn in a run loses its value.
SelectMethod(m) ==
    /\ m # input_method
    /\ ScriptRun("select", m, NoneVal, <<>>, edits, config, FALSE, FALSE, "ok")

Upload(f) ==
    /\ input_method = "Upload CSV"
    /\ f # uploaded_file
    /\ ScriptRun("upload", input_method, f, csv_text, edits, config, FALSE, FALSE, "ok")

Paste(t) ==
    /\ input_method = "Paste CSV / Excel"
    /\ t # csv_text
    /\ ScriptRun("paste", input_method, uploaded_file, t, edits, config, FALSE, FALSE, "ok")

\* load_sample_data(), then st.rerun(): the script runs again, button unset.
ClickSample ==
    /\ input_method = "Use Sample"
    /\ ScriptRun("sample", input_method, uploaded_file, csv_text, edits, config,
                 TRUE, FALSE, "ok")

Edit(op) ==
    /\ InputOk
    /\ data_df # NoneVal
    /\ op # edits
    /\ ScriptRun("edit", input_method, uploaded_file, csv_text, op, config,
                 FALSE, FALSE, "ok")

SetConfig(c) ==
    /\ c # config
    /\ ScriptRun("config", input_method, uploaded_file, csv_text, edits, c,
                 FALSE, FALSE, "ok")

ClickGenerate(outcome) ==
    /\ ButtonEnabled
    /\ Len(gens) < MaxGens
    /\ ScriptRun("generate", input_method, uploaded_file, csv_text, edits, config,
                 FALSE, TRUE, outcome)

Tick ==
    /\ now < MaxTick
    /\ now' = now + 1
    /\ UNCHANGED <<data_df, generated_map_path, input_method, uploaded_file, csv_text,
                   edits, config, temp_csv, gens, run, hdr>>

Next ==
    \/ \E m \in InputMethods : SelectMethod(m)
    \/ \E f \in UploadInputs : Upload(f)
    \/ \E t \in PasteInputs : Paste(t)
    \/ ClickSample
    \/ \E op \in EditOps : Edit(op)
    \/ \E c \in Configs : SetConfig(c)
    \/ \E outcome \in {"ok", "raise"} : ClickGenerate(outcome)

\* The session at one instant: every input path, the editor, the sidebar
\* and the Generate button.
Spec == Init /\ [][Next]_vars

NextGen ==
    \/ SelectMethod("Use Sample")
    \/ ClickSample
    \/ \E op \in EditOps : Edit(op)
    \/ \E c \in Configs : SetConfig(c)
    \/ \E outcome \in {"ok", "raise"} : ClickGenerate(outcome)
    \/ Tick

\* Generations over time: the sample table, the editor, the sidebar and
\* the clock.
SpecGen == Init /\ [][NextGen]_vars

\* The paste branch on every text of at most MaxLen symbols: one paste per
\* session, into an empty session or one that holds the sample table.
NextNormalize ==
    \/ \E m \in {"Paste CSV / Excel", "Use Sample"} :
          run.event # "paste" /\ SelectMethod(m)
    \/ ClickSample
    \/ /\ csv_text = <<>>
       /\ run.event # "paste"
       /\ \E t \in Texts(MaxLen) : Paste(t)

SpecNormalize == Init /\ [][NextNormalize]_vars

\* One text, a header h followed by a delimiter and a second header, put
\* through the upload path and the paste path, and the column
\* normalization of each applied once more to its own result.
InitHeader ==
    /\ Init!1 /\ Init!2 /\ Init!3 /\ Init!4 /\ Init!5 /\ Init!6
    /\ Init!7 /\ Init!8 /\ Init!9 /\ Init!10 /\ Init!11
    /\ \E h \in Headers, d \in {COMMA, TAB} :
          hdr = [HdrInit EXCEPT !.text = h \o <<d, "VALUE">>]

SessionUnchanged ==
    UNCHANGED <<data_df, generated_map_path, input_method, uploaded_file, csv_text,
                edits, config, now, temp_csv, gens, run>>

HeaderUpload ==
    /\ hdr.upload = NoneVal
    /\ hdr' = [hdr EXCEPT !.upload = LoadUpload(hdr.text)]
    /\ SessionUnchanged

HeaderPaste ==
    /\ hdr.paste = NoneVal
    /\ hdr' = [hdr EXCEPT !.paste = NormalizePasted(hdr.text)]
    /\ SessionUnchanged

HeaderUploadAgain ==
    /\ hdr.upload # NoneVal
    /\ hdr.upload.ok
    /\ hdr.upload2 = NoneVal
    /\ hdr' = [hdr EXCEPT !.upload2 = UploadColumns(hdr.upload.df)]
    /\ SessionUnchanged

HeaderPasteAgain ==
    /\ hdr.paste # NoneVal
    /\ hdr.paste.ok
    /\ hdr.paste2 = NoneVal
    /\ hdr' = [hdr EXCEPT !.paste2 = PasteColumns(hdr.paste.df)]
    /\ SessionUnchanged

NextHeader ==
    \/ HeaderUpload
    \/ HeaderPaste
    \/ HeaderUploadAgain
    \/ HeaderPasteAgain

SpecHeader == InitHeader /\ [][NextHeader]_vars

\* ================================================================= claims
HeaderOf(file) == {file.lines[1][k] : k \in 1..Len(file.lines[1])}

Whitespace(text) == \A i \in 1..Len(text) : text[i] \in {SP, TAB, NL, NBSP}

EditedNow == ApplyEdit(edits, data_df)

\* C1 (Spec): generated_map_path starts absent; a step changes it only if
\* it is a generation whose renderer call returned, and then to that
\* generation's output path; a generation whose renderer raised and every
\* input action leave it as it was.
C1_Step ==
    /\ (gens' # gens /\ gens'[Len(gens')].ok)
          => generated_map_path' = run'.calls[1].output_path
    /\ ~(gens' # gens /\ gens'[Len(gens')].ok)
          => generated_map_path' = generated_map_path

C1_PathSetOnlyOnSuccess == generated_map_path = NoneVal /\ [][C1_Step]_vars

C1_Witness ==
    /\ run.event = "generate"
    /\ run.error = "render_error"
    /\ generated_map_path # NoneVal

C2_Served ==
    /\ \A i \in 1..Len(run.calls) : required_cols \subseteq HeaderOf(run.calls[i].file)
    /\ temp_csv # NoneVal => required_cols \subseteq HeaderOf(temp_csv)

C2_Blocked == data_df = NoneVal \/ ~(required_cols \subseteq ColumnSet(EditedNow))

C2_Step ==
    C2_Blocked => /\ run'.calls = <<>>
                  /\ temp_csv' = temp_csv
                  /\ gens' = gens
                  /\ generated_map_path' = generated_map_path

\* C2 (Spec): every file handed to the renderer has a state and a value
\* column, and while there is no table or the edited table lacks one of
\* them no step calls the renderer, writes the temp file or sets the path.
C2_RendererOnlyWhenReady == []C2_Served /\ [][C2_Step]_vars

C2_Witness ==
    /\ data_df # NoneVal
    /\ InputOk
    /\ ~(required_cols \subseteq ColumnSet(EditedNow))
    /\ temp_csv # NoneVal

MultiColumn(r) == r.ok /\ Len(r.df.columns) > 1

C3_Expected(c, t, f) ==
    IF MultiColumn(c) THEN c ELSE IF MultiColumn(t) THEN t ELSE f

C3_Agrees(expected) ==
    expected.ok => /\ run.error = "none"
                   /\ data_df.rows = expected.df.rows
                   /\ data_df.columns = [i \in 1..Len(expected.df.columns) |->
                                            PasteName(expected.df.columns[i])]

\* C3 (SpecNormalize): for non-blank pasted text the table stored is the
\* comma parse if it succeeds with more than one column, otherwise the tab
\* parse if it succeeds with more than one column, otherwise the
\* fixed-width parse.
C3_FirstStrategyWins ==
    (run.event = "paste" /\ ~IsBlank(csv_text))
       => C3_Agrees(C3_Expected(ReadCsv(csv_text, COMMA), ReadCsv(csv_text, TAB),
                                ReadFwf(csv_text)))

C3_Witness ==
    /\ run.event = "paste"
    /\ ~IsBlank(csv_text)
    /\ ReadCsv(csv_text, COMMA).ok
    /\ Len(ReadCsv(csv_text, COMMA).df.columns) = 1
    /\ MultiColumn(ReadCsv(csv_text, TAB))
    /\ data_df.rows = ReadCsv(csv_text, TAB).df.rows
    /\ Len(data_df.columns) = Len(ReadCsv(csv_text, TAB).df.columns)

C4_FwfStored(f) ==
    /\ f.ok
    /\ data_df.rows = f.df.rows
    /\ data_df.columns = [i \in 1..Len(f.df.columns) |-> PasteName(f.df.columns[i])]

C5_Step ==
    (/\ input_method = "Paste CSV / Excel"
     /\ input_method' = "Paste CSV / Excel"
     /\ csv_text' # csv_text
     /\ Whitespace(csv_text'))
       => /\ data_df' = data_df
          /\ generated_map_path' = generated_map_path
          /\ run'.error = "none"

C5_BlankPasteIsNoOp == [][C5_Step]_vars

C5_Witness ==
    /\ run.event = "paste"
    /\ csv_text # <<>>
    /\ Whitespace(csv_text)
    /\ data_df # NoneVal
    /\ generated_map_path # NoneVal

C6_UploadExpected(r) ==
    Table([i \in 1..Len(r.df.columns) |-> Lower(Strip(r.df.columns[i]))], r.df.rows)

C6_Loaded ==
    /\ (run.event = "upload" /\ run.error = "none" /\ uploaded_file # NoneVal)
          => data_df = C6_UploadExpected(ReadCsv(uploaded_file.content, COMMA))
    /\ (run.event = "paste" /\ run.error = "none" /\ ~Whitespace(csv_text))
          => data_df = NormalizePasted(csv_text).df
    /\ run.event = "sample" => data_df = SampleTable

\* C6 as stated: data_df is the newly loaded table after every input
\* action, and the edited table after a user edit.
C6_Original ==
    /\ C6_Loaded
    /\ run.event = "edit" => data_df = EditedNow

\* C6 (Spec), amended: data_df is exactly the newly loaded table after a
\* successful upload, non-blank paste or sample load; a user edit leaves
\* data_df as it was, the edited table being the editor's value only.
C6_Step == (run'.event = "edit" /\ edits' # edits) => data_df' = data_df

C6_ReplacedOnInputOnly == []C6_Loaded /\ [][C6_Step]_vars

C6_Witness ==
    /\ run.event = "edit"
    /\ edits # "none"
    /\ EditedNow # data_df
    /\ input_method = "Paste CSV / Excel"
    /\ data_df = NormalizePasted(csv_text).df

C7_Raw == ReadCsv(hdr.text, COMMA).df.columns

C7_NoInnerNbsp(h) == \A k \in 1..Len(Strip(h)) : Strip(h)[k] # NBSP

\* C7 as stated: the upload path stores every header trimmed, lowercased
\* and with its no-break spaces removed, as the paste path does.
C7_Original ==
    (hdr.upload # NoneVal /\ hdr.upload.ok)
       => \A i \in 1..Len(C7_Raw) :
             hdr.upload.df.columns[i] = Remove(Lower(Strip(C7_Raw[i])), NBSP)

\* C7 (SpecHeader), amended: the upload path stores the comma parse and
\* nothing else, each header trimmed and lowercased; that is the name the
\* paste path stores whenever the trimmed header holds no no-break space,
\* and otherwise the paste path's name is the upload path's without them.
C7_UploadNames ==
    /\ hdr.upload # NoneVal
          => /\ hdr.upload.ok = ReadCsv(hdr.text, COMMA).ok
             /\ hdr.upload.ok
                   => /\ hdr.upload.df.rows = ReadCsv(hdr.text, COMMA).df.rows
                      /\ Len(hdr.upload.df.columns) = Len(C7_Raw)
                      /\ \A i \in 1..Len(C7_Raw) :
                            /\ hdr.upload.df.columns[i] = Lower(Strip(C7_Raw[i]))
                            /\ C7_NoInnerNbsp(C7_Raw[i])
                                  => hdr.upload.df.columns[i]
                                        = Remove(Lower(Strip(C7_Raw[i])), NBSP)
    /\ (hdr.upload # NoneVal /\ hdr.paste # NoneVal /\ hdr.upload.ok /\ hdr.paste.ok
        /\ MultiColumn(ReadCsv(hdr.text, COMMA)))
          => \A i \in 1..Len(C7_Raw) :
                /\ hdr.paste.df.columns[i] = Remove(hdr.upload.df.columns[i], NBSP)
                /\ C7_NoInnerNbsp(C7_Raw[i])
                      => hdr.paste.df.columns[i] = hdr.upload.df.columns[i]

C7_Witness ==
    /\ hdr.upload # NoneVal
    /\ hdr.paste # NoneVal
    /\ MultiColumn(ReadCsv(hdr.text, COMMA))
    /\ hdr.upload.df.columns[1] # C7_Raw[1]
    /\ hdr.upload.df.columns[2] # C7_Raw[2]
    /\ hdr.upload.df.columns = hdr.paste.df.columns

\* C8 (SpecGen): a generation writes the edited table to the one temp
\* file, then calls the renderer once, failing or not, with that file's
\* path, the current configuration and the timestamp-named .png path; the
\* file read holds the rows of the table that passed the readiness check.
C8_OneCallOnWrittenFile ==
    run.event = "generate"
       => /\ Len(run.calls) = 1
          /\ run.calls[1].data_csv_path = temp_csv_path
          /\ run.calls[1].config = config
          /\ run.calls[1].output_path = gens[Len(gens)].path
          /\ run.calls[1].output_path.ext = ".png"
          /\ run.calls[1].output_path.stamp = gens[Len(gens)].tick \div TicksPerSec
          /\ run.calls[1].file = temp_csv
          /\ temp_csv.lines = <<data_df.columns>> \o EditedNow.rows
          /\ required_cols \subseteq HeaderOf(temp_csv)

C8_Witness ==
    /\ run.event = "generate"
    /\ run.error = "render_error"
    /\ Len(gens) = 2
    /\ edits # "none"
    /\ config # DefaultConfig
    /\ now > 0

C9_Apart(i, j) == gens[j].tick - gens[i].tick >= TicksPerSec

C9_LastOk ==
    IF \E i \in 1..Len(gens) : gens[i].ok
    THEN gens[Max({i \in 1..Len(gens) : gens[i].ok})].path
    ELSE NoneVal

\* C9 (SpecGen): two generations at least one second apart have different
\* output paths, and generated_map_path is the path of the most recent
\* successful generation.
C9_DistinctPaths ==
    /\ \A i, j \in 1..Len(gens) : (i < j /\ C9_Apart(i, j)) => gens[i].path # gens[j].path
    /\ generated_map_path = C9_LastOk

C9_Witness ==
    \E i, j \in 1..Len(gens) :
        /\ i < j
        /\ C9_Apart(i, j)
        /\ gens[i].ok
        /\ gens[j].ok
        /\ generated_map_path = gens[j].path

\* C10 (SpecHeader): normalizing the headers of an already normalized
\* table gives the same headers, on the paste path and on the upload path.
C10_Idempotent ==
    /\ hdr.paste2 # NoneVal => hdr.paste2.columns = hdr.paste.df.columns
    /\ hdr.upload2 # NoneVal => hdr.upload2.columns = hdr.upload.df.columns

C10_Witness ==
    /\ hdr.paste2 # NoneVal
    /\ hdr.upload2 # NoneVal
    /\ hdr.text[1] = SP
    /\ hdr.text[2] = NBSP
    /\ hdr.text[3] = "VALUE"
    /\ hdr.paste2.columns[1] = <<"value">>

=============================================================================
